---- MODULE Spec2Model ----
(***************************************************************************)
(* A model of rolock's RoLock<T>(Arc<RwLock<T>>) (src/src/lib.rs).         *)
(*                                                                         *)
(* The state is one allocation, the ArcInner<RwLock<T>> that new_pair,     *)
(* from_rw or Arc::new makes, followed from its creation to its release    *)
(* (after which the next one is made).  strong is its atomic strong count  *)
(* (0: not allocated), data the T stored in the lock (<<>> when there is   *)
(* none), poisoned the lock's poison flag and readers / writer the lock    *)
(* word (number of read locks, write locked).  A handle slot h is one      *)
(* owner: a RoLock (hkind[h] = "ro") or a full-capability Arc<RwLock<T>>   *)
(* (hkind[h] = "rw").  Each owner is held by a thread of its own;          *)
(* thread[h] says whether that thread holds a read guard or the write      *)
(* guard borrowed from h, or is parked inside read().  A thread holds one  *)
(* guard at a time: std leaves locking again by the holder free to         *)
(* deadlock or panic.  last records the most recent call and what it       *)
(* returned, and written the value most recently put into the lock (by its *)
(* construction or by a store through a write guard) and which of the two  *)
(* it was.  T is bool, as in the doctests of new, new_pair and from_rw.    *)
(***************************************************************************)
EXTENDS Integers, Sequences, FiniteSets, TLC

MaxHandles == 3

Handles == 1..MaxHandles
Val == BOOLEAN

\* Option<T>: <<>> is None, <<v>> is Some(v).
None == <<>>
Some(v) == <<v>>

VARIABLES strong, data, poisoned, readers, writer, hkind, thread, last,
          written

vars == <<strong, data, poisoned, readers, writer, hkind, thread, last,
          written>>

allocVars == <<strong, data, poisoned, readers, writer>>

Min(S) == CHOOSE x \in S : \A y \in S : x <= y

\* Slots holding no owner.
FreeSlots == {h \in Handles : hkind[h] = "none"}
Live(h) == hkind[h] # "none"
IsRo(h) == hkind[h] = "ro"
IsRw(h) == hkind[h] = "rw"

\* The owners of the allocation that are alive: every RoLock and every Arc.
Owners == {h \in Handles : Live(h)}

\* The guards that are alive on the lock.
ReadGuards == {h \in Handles : thread[h] = "reading"}
WriteGuards == {h \in Handles : thread[h] = "writing"}

Ret(op, h, res, val, out) ==
    [op |-> op, h |-> h, res |-> res, val |-> val, out |-> out]

----------------------------------------------------------------------------
(* std::sync::Arc, as the crate uses it.                                   *)

\* A clone that takes no strong reference.
ArcCloneUncounted(s) == s

\* Arc::clone: one more strong reference.
ArcClone(s) == s + 1

\* A drop that leaves the strong count as it was.
ArcDropUncounted(s) == s

\* Dropping an Arc: one strong reference less.
ArcDrop(s) == s - 1

\* Arc::strong_count.
ArcStrongCount == strong

\* An unwrap that does not look at the other owners.
TryUnwrapAlways == strong >= 1

\* An unwrap that looks at the RoLocks only, as the doc comments word it.
TryUnwrapCountingRoLocks == Cardinality({h \in Handles : IsRo(h)}) = 1

\* Arc::try_unwrap succeeds exactly when this is the only strong reference.
TryUnwrapOk == strong = 1

----------------------------------------------------------------------------
(* std::sync::RwLock, as the crate uses it.                                *)

\* RwLock::is_poisoned.
LockIsPoisoned == poisoned

\* A read lock that is granted whatever the lock word says.
ReadAcquirableAlways == TRUE

\* A read lock that other readers keep out too.
ReadAcquirableExclusive == ~writer /\ readers = 0

\* A read lock can be taken when the lock is not write locked.
ReadAcquirable == ~writer

\* A write lock can be taken when the lock is not locked at all.
WriteAcquirable == ~writer /\ readers = 0

\* An into_inner that hands the value out of a poisoned lock too.
LockIntoInnerIgnoringPoison == TRUE

\* RwLock::into_inner gives the value back unless the lock is poisoned.
LockIntoInnerOk == ~poisoned

\* A lock result that never reports the poison.
LockResultAlwaysOk == "Ok"

\* What LockResult a granted lock is wrapped in.
LockResult == IF LockIsPoisoned THEN "Poisoned" ELSE "Ok"

\* The allocation is released: the lock and what is left of its value go.
Freed ==
    /\ data' = None
    /\ written' = [val |-> None, by |-> "none"]
    /\ poisoned' = FALSE
    /\ readers' = 0
    /\ writer' = FALSE

\* Dropping the owner in slot h: the strong count goes down by one and the
\* last owner releases the allocation.
\* Dropping an owner that takes the value with it whoever else is alive.
DropOwnerFreeing(h) ==
    /\ strong' = ArcDrop(strong)
    /\ hkind' = [hkind EXCEPT ![h] = "none"]
    /\ Freed

DropOwner(h) ==
    /\ strong' = ArcDrop(strong)
    /\ hkind' = [hkind EXCEPT ![h] = "none"]
    /\ IF strong' = 0
          THEN Freed
          ELSE UNCHANGED <<data, poisoned, readers, writer, written>>

\* The thread that holds h is free to move it or to lock through it.
Idle(h) == thread[h] = "idle"

\* The thread that holds h is running (not parked inside read()).
Running(h) == thread[h] # "parked"

----------------------------------------------------------------------------
Init ==
    /\ strong = 0
    /\ data = None
    /\ poisoned = FALSE
    /\ readers = 0
    /\ writer = FALSE
    /\ hkind = [h \in Handles |-> "none"]
    /\ thread = [h \in Handles |-> "idle"]
    /\ last = Ret("init", 0, "Ok", None, 0)
    /\ written = [val |-> None, by |-> "none"]

----------------------------------------------------------------------------
(* Construction.                                                           *)

\* A From that wraps the pointer without cloning the Arc.
FromUncounted(w) ==
    LET h == Min(FreeSlots) IN
    /\ strong' = strong
    /\ hkind' = [hkind EXCEPT ![h] = "ro"]

\* impl From<&Arc<RwLock<T>>> for RoLock: Self(Arc::clone(value)), into the
\* first free slot.
From(w) ==
    LET h == Min(FreeSlots) IN
    /\ strong' = ArcClone(strong)
    /\ hkind' = [hkind EXCEPT ![h] = "ro"]

\* RoLock::new(&rw): Self::from(value).
New(w) ==
    /\ IsRw(w)
    /\ Running(w)
    /\ FreeSlots # {}
    /\ From(w)
    /\ last' = Ret("new", w, "Ok", None, Min(FreeSlots))
    /\ UNCHANGED <<data, poisoned, readers, writer, thread, written>>

\* The pair both new_pair and from_rw build: Arc::new(lock) (one strong
\* reference), then an alias of it.
MakePair(op, v, p) ==
    /\ strong = 0
    /\ Cardinality(FreeSlots) >= 2
    /\ LET w == Min(FreeSlots)
           h == Min(FreeSlots \ {w}) IN
       /\ strong' = ArcClone(1)
       /\ data' = Some(v)
       /\ written' = [val |-> Some(v), by |-> "new"]
       /\ poisoned' = p
       /\ hkind' = [hkind EXCEPT ![w] = "rw", ![h] = "ro"]
       /\ last' = Ret(op, w, "Ok", None, h)
    /\ UNCHANGED <<readers, writer, thread>>

\* RoLock::new_pair(value): the lock is RwLock::new(value), never poisoned.
NewPair(v) == MakePair("new_pair", v, FALSE)

\* RoLock::from_rw(lock): the caller's lock may hold any value and may
\* already be poisoned.
FromRw(v, p) == MakePair("from_rw", v, p)

----------------------------------------------------------------------------
(* Read access.                                                            *)

\* The lock is taken for writing instead, as self.0.write() would.
GrantWrite(op, h) ==
    /\ readers' = readers
    /\ writer' = TRUE
    /\ thread' = [thread EXCEPT ![h] = "writing"]
    /\ last' = Ret(op, h, LockResult, data, 0)

\* A read that hands out the value the lock was constructed with (a copy
\* taken when the handle was made), here the constant FALSE.
GrantReadOfCopy(op, h) ==
    /\ readers' = readers + 1
    /\ writer' = writer
    /\ thread' = [thread EXCEPT ![h] = "reading"]
    /\ last' = Ret(op, h, LockResult, Some(FALSE), 0)

\* The read lock is granted through handle h.
GrantRead(op, h) ==
    /\ readers' = readers + 1
    /\ writer' = writer
    /\ thread' = [thread EXCEPT ![h] = "reading"]
    /\ last' = Ret(op, h, LockResult, data, 0)

\* RoLock::read: self.0.read().  The call parks while the lock is write
\* locked.
Read(h) ==
    /\ IsRo(h)
    /\ Idle(h)
    /\ IF ReadAcquirable
          THEN GrantRead("read", h)
          ELSE /\ thread' = [thread EXCEPT ![h] = "parked"]
               /\ last' = Ret("read", h, "Blocked", None, 0)
               /\ UNCHANGED <<readers, writer>>
    /\ UNCHANGED <<strong, data, poisoned, hkind, written>>

\* A parked read() is woken once the lock is no longer write locked.
ReadWake(h) ==
    /\ thread[h] = "parked"
    /\ ReadAcquirable
    /\ GrantRead("read", h)
    /\ UNCHANGED <<strong, data, poisoned, hkind, written>>

\* A try_read that waits for the writer, as read() does.
TryReadWaiting(h) ==
    /\ IsRo(h)
    /\ Idle(h)
    /\ IF ReadAcquirable
          THEN GrantRead("try_read", h)
          ELSE /\ thread' = [thread EXCEPT ![h] = "parked"]
               /\ last' = Ret("try_read", h, "Blocked", None, 0)
               /\ UNCHANGED <<readers, writer>>
    /\ UNCHANGED <<strong, data, poisoned, hkind, written>>

\* RoLock::try_read: self.0.try_read().
TryRead(h) ==
    /\ IsRo(h)
    /\ Idle(h)
    /\ IF ReadAcquirable
          THEN GrantRead("try_read", h)
          ELSE /\ last' = Ret("try_read", h, "WouldBlock", None, 0)
               /\ UNCHANGED <<readers, writer, thread>>
    /\ UNCHANGED <<strong, data, poisoned, hkind, written>>

\* The RwLockReadGuard borrowed from h goes out of scope.
ReadGuardDrop(h) ==
    /\ thread[h] = "reading"
    /\ thread' = [thread EXCEPT ![h] = "idle"]
    /\ readers' = readers - 1
    /\ last' = Ret("guard_drop", h, "Ok", None, 0)
    /\ UNCHANGED <<strong, data, poisoned, writer, hkind, written>>

\* RoLock::is_poisoned: self.0.is_poisoned().
\* A poison query that goes through the read lock.
IsPoisonedLocking(h) ==
    /\ IsRo(h)
    /\ Running(h)
    /\ ReadAcquirable
    /\ last' = Ret("is_poisoned", h, "Ok", Some(LockIsPoisoned), 0)
    /\ UNCHANGED <<allocVars, hkind, thread, written>>

IsPoisoned(h) ==
    /\ IsRo(h)
    /\ Running(h)
    /\ last' = Ret("is_poisoned", h, "Ok", Some(LockIsPoisoned), 0)
    /\ UNCHANGED <<allocVars, hkind, thread, written>>

\* RoLock::strong_count: Arc::strong_count(&self.0).
StrongCount(h) ==
    /\ IsRo(h)
    /\ Running(h)
    /\ last' = Ret("strong_count", h, "Ok", Some(ArcStrongCount), 0)
    /\ UNCHANGED <<allocVars, hkind, thread, written>>

----------------------------------------------------------------------------
(* Reclaim, clone and drop.                                                *)

\* The sole owner's Arc is unwrapped: the allocation is gone and the lock
\* is consumed by RwLock::into_inner, which hands the value out or, on a
\* poisoned lock, an error (poisonRes is what the caller makes of it).
Unwrapped(op, h, poisonRes) ==
    /\ strong' = 0
    /\ hkind' = [hkind EXCEPT ![h] = "none"]
    /\ Freed
    /\ last' = IF LockIntoInnerOk
                  THEN Ret(op, h, "Ok", data, 0)
                  ELSE Ret(op, h, poisonRes, None, 0)

\* An into_inner that drops the Arc try_unwrap hands back instead of
\* returning it in Multiple.
IntoInnerLosingHandle(h) ==
    /\ IsRo(h)
    /\ Idle(h)
    /\ IF TryUnwrapOk
          THEN Unwrapped("into_inner", h, "Poison")
          ELSE /\ DropOwner(h)
               /\ last' = Ret("into_inner", h, "Multiple", None, h)
    /\ UNCHANGED thread

\* RoLock::into_inner.
\* A reclaim that looks at the poison flag before the owner count.
IntoInnerPoisonFirst(h) ==
    /\ IsRo(h)
    /\ Idle(h)
    /\ IF LockIsPoisoned
          THEN /\ DropOwner(h)
               /\ last' = Ret("into_inner", h, "Poison", None, 0)
          ELSE IF TryUnwrapOk
                  THEN Unwrapped("into_inner", h, "Poison")
                  ELSE /\ last' = Ret("into_inner", h, "Multiple", None, h)
                       /\ UNCHANGED <<allocVars, hkind, written>>
    /\ UNCHANGED thread

IntoInner(h) ==
    /\ IsRo(h)
    /\ Idle(h)
    /\ IF TryUnwrapOk
          THEN Unwrapped("into_inner", h, "Poison")
          ELSE /\ last' = Ret("into_inner", h, "Multiple", None, h)
               /\ UNCHANGED <<allocVars, hkind, written>>
    /\ UNCHANGED thread

\* RoLock::into_inner_unchecked: both unwrap()s panic on Err, and the
\* panic drops the Arc that try_unwrap handed back.
\* A panicking reclaim whose handle outlives the panic.
IntoInnerUncheckedLeaking(h) ==
    /\ IsRo(h)
    /\ Idle(h)
    /\ IF TryUnwrapOk
          THEN Unwrapped("into_inner_unchecked", h, "Panic")
          ELSE /\ last' = Ret("into_inner_unchecked", h, "Panic", None, 0)
               /\ UNCHANGED <<allocVars, hkind, written>>
    /\ UNCHANGED thread

IntoInnerUnchecked(h) ==
    /\ IsRo(h)
    /\ Idle(h)
    /\ IF TryUnwrapOk
          THEN Unwrapped("into_inner_unchecked", h, "Panic")
          ELSE /\ DropOwner(h)
               /\ last' = Ret("into_inner_unchecked", h, "Panic", None, 0)
    /\ UNCHANGED thread

\* impl Clone for RoLock: Self(Arc::clone(&self.0)), into the first free
\* slot.
Clone(h) ==
    /\ IsRo(h)
    /\ Running(h)
    /\ FreeSlots # {}
    /\ LET c == Min(FreeSlots) IN
       /\ strong' = ArcClone(strong)
       /\ hkind' = [hkind EXCEPT ![c] = "ro"]
       /\ last' = Ret("clone", h, "Ok", None, c)
    /\ UNCHANGED <<data, poisoned, readers, writer, thread, written>>

\* A RoLock goes out of scope: its Arc field is dropped.
Drop(h) ==
    /\ IsRo(h)
    /\ Idle(h)
    /\ DropOwner(h)
    /\ last' = Ret("drop", h, "Ok", None, 0)
    /\ UNCHANGED thread

----------------------------------------------------------------------------
(* The full-capability holders of the crate documentation: an              *)
(* Arc<RwLock<T>> that is made, cloned, dropped, read and written through. *)

\* Arc::new(RwLock::new(v)): a fresh allocation with one strong reference.
RwNew(v) ==
    /\ strong = 0
    /\ FreeSlots # {}
    /\ LET w == Min(FreeSlots) IN
       /\ strong' = 1
       /\ data' = Some(v)
       /\ written' = [val |-> Some(v), by |-> "new"]
       /\ hkind' = [hkind EXCEPT ![w] = "rw"]
       /\ last' = Ret("rw_new", 0, "Ok", None, w)
    /\ UNCHANGED <<poisoned, readers, writer, thread>>

RwClone(w) ==
    /\ IsRw(w)
    /\ FreeSlots # {}
    /\ LET c == Min(FreeSlots) IN
       /\ strong' = ArcClone(strong)
       /\ hkind' = [hkind EXCEPT ![c] = "rw"]
       /\ last' = Ret("rw_clone", w, "Ok", None, c)
    /\ UNCHANGED <<data, poisoned, readers, writer, thread, written>>

RwDrop(w) ==
    /\ IsRw(w)
    /\ Idle(w)
    /\ DropOwner(w)
    /\ last' = Ret("rw_drop", w, "Ok", None, 0)
    /\ UNCHANGED thread

\* rw.read() returns: a read guard is taken.
RwRead(w) ==
    /\ IsRw(w)
    /\ Idle(w)
    /\ ReadAcquirable
    /\ GrantRead("rw_read", w)
    /\ UNCHANGED <<strong, data, poisoned, hkind, written>>

\* rw.write() returns: the write guard is taken.
WriteAcquire(w) ==
    /\ IsRw(w)
    /\ Idle(w)
    /\ WriteAcquirable
    /\ writer' = TRUE
    /\ thread' = [thread EXCEPT ![w] = "writing"]
    /\ last' = Ret("write", w, LockResult, None, 0)
    /\ UNCHANGED <<strong, data, poisoned, readers, hkind, written>>

\* *guard = v.
WriteStore(w, v) ==
    /\ thread[w] = "writing"
    /\ data' = Some(v)
    /\ written' = [val |-> Some(v), by |-> "store"]
    /\ last' = Ret("store", w, "Ok", Some(v), 0)
    /\ UNCHANGED <<strong, poisoned, readers, writer, hkind, thread>>

\* The write guard goes out of scope, normally or (panicked) during a
\* panic of the thread that holds it, which poisons the lock.
WriteRelease(w, panicked) ==
    /\ thread[w] = "writing"
    /\ writer' = FALSE
    /\ thread' = [thread EXCEPT ![w] = "idle"]
    /\ poisoned' = (poisoned \/ panicked)
    /\ last' = Ret("write_release", w, IF panicked THEN "Panic" ELSE "Ok", None, 0)
    /\ UNCHANGED <<strong, data, readers, hkind, written>>

----------------------------------------------------------------------------
Next ==
    \/ \E w \in Handles : New(w)
    \/ \E v \in Val : NewPair(v)
    \/ \E v \in Val, p \in BOOLEAN : FromRw(v, p)
    \/ \E h \in Handles : Read(h)
    \/ \E h \in Handles : ReadWake(h)
    \/ \E h \in Handles : TryRead(h)
    \/ \E h \in Handles : ReadGuardDrop(h)
    \/ \E h \in Handles : IsPoisoned(h)
    \/ \E h \in Handles : StrongCount(h)
    \/ \E h \in Handles : IntoInner(h)
    \/ \E h \in Handles : IntoInnerUnchecked(h)
    \/ \E h \in Handles : Clone(h)
    \/ \E h \in Handles : Drop(h)
    \/ \E v \in Val : RwNew(v)
    \/ \E w \in Handles : RwClone(w)
    \/ \E w \in Handles : RwRead(w)
    \/ \E w \in Handles : RwDrop(w)
    \/ \E w \in Handles : WriteAcquire(w)
    \/ \E w \in Handles, v \in Val : WriteStore(w, v)
    \/ \E w \in Handles, p \in BOOLEAN : WriteRelease(w, p)

Spec == Init /\ [][Next]_vars

\* The threads are scheduled fairly: a writer that holds the write guard
\* gets to release it, and a parked read() that stays able to take the
\* lock gets to take it.  std promises no order between readers and
\* writers contending for the lock, so nothing stronger is assumed.
FairSpec ==
    /\ Spec
    /\ \A w \in Handles : WF_vars(\E p \in BOOLEAN : WriteRelease(w, p))
    /\ \A h \in Handles : WF_vars(ReadWake(h))

----------------------------------------------------------------------------
(* The claims.                                                             *)

\* The RoLocks and the Arc<RwLock<T>>s that are alive, and the results
\* that carry a guard.
Ro == {h \in Handles : IsRo(h)}
Rw == {h \in Handles : IsRw(h)}
RetOk == {"Ok", "Poisoned"}

\* C1: strong_count() on any surviving RoLock is exactly the number of
\* live owners of the allocation, RoLocks and Arc<RwLock<T>>s alike: the
\* strong count equals the number of owners in every state, and the value
\* the most recent strong_count() returned is that number.
C1_StrongCountIsOwners ==
    /\ \A h \in Ro : ArcStrongCount = Cardinality(Owners)
    /\ strong = Cardinality(Ro) + Cardinality(Rw)
    /\ last.op = "strong_count" => last.val = Some(Cardinality(Owners))

\* strong_count() has just returned 2 on a RoLock that shares the
\* allocation with one Arc<RwLock<T>>.
C1_Witness ==
    /\ last.op = "strong_count"
    /\ last.val = Some(2)
    /\ Cardinality(Rw) = 1
    /\ Cardinality(Ro) = 1

\* C2: into_inner returns Ok(v), v the stored value, iff the handle is the
\* sole owner and the lock is not poisoned at the call; otherwise an Err.
C2_IntoInnerOkIff ==
    [][last'.op = "into_inner" =>
        /\ last'.res \in {"Ok", "Multiple", "Poison"}
        /\ (last'.res = "Ok") <=> (Owners = {last'.h} /\ ~poisoned)
        /\ (last'.res = "Ok") => (last'.val = data /\ data # None)]_vars

\* into_inner has just returned Ok(true).
C2_Witness ==
    /\ last.op = "into_inner"
    /\ last.res = "Ok"
    /\ last.val = Some(TRUE)

\* C3: into_inner while another owner is alive returns Multiple(h), h an
\* owner of the same allocation: owner count, value and lock state are as
\* before the call, and h reads what the original would have read.
C3_MultipleGivesHandleBack ==
    [][(last'.op = "into_inner" /\ Owners # {last'.h}) =>
        /\ last'.res = "Multiple"
        /\ hkind'[last'.out] = "ro"
        /\ strong' = strong
        /\ Owners' = Owners
        /\ UNCHANGED <<data, poisoned, readers, writer, thread, hkind>>]_vars

\* into_inner has just returned Multiple(h) while an Arc<RwLock<T>> is
\* alive, and h is a live RoLock.
C3_Witness ==
    /\ last.op = "into_inner"
    /\ last.res = "Multiple"
    /\ IsRo(last.out)
    /\ Rw # {}

\* C4: into_inner on the sole owner of a poisoned lock returns Poison,
\* which carries no value; afterwards the allocation has no owner and the
\* value is gone.
C4_PoisonDiscardsValue ==
    [][(last'.op = "into_inner" /\ Owners = {last'.h} /\ poisoned) =>
        /\ last'.res = "Poison"
        /\ last'.val = None
        /\ Owners' = {}
        /\ strong' = 0
        /\ data' = None]_vars

\* into_inner has just returned Poison and nothing is left.
C4_Witness ==
    /\ last.op = "into_inner"
    /\ last.res = "Poison"
    /\ Owners = {}
    /\ data = None

\* The calls a RoLock offers.
RoOps == {"new", "new_pair", "from_rw", "clone", "read", "try_read",
          "is_poisoned", "strong_count", "into_inner",
          "into_inner_unchecked", "drop"}

\* C5: no RoLock operation changes the stored value or takes the write
\* lock: a stored value is replaced only by a store of an Arc<RwLock<T>>
\* holder that holds the write guard, the lock becomes write locked only by
\* such a holder's write(), and no RoLock ever holds a write guard.
C5_RoLockNeverWrites ==
    [][/\ (data # None /\ data' # None /\ data' # data) =>
            (last'.op = "store" /\ IsRw(last'.h) /\ thread[last'.h] = "writing")
       /\ (writer' /\ ~writer) => (last'.op = "write" /\ IsRw(last'.h))
       /\ last'.op \in RoOps => (writer' = writer \/ ~writer')
       /\ \A h \in Handles : hkind'[h] = "ro" => thread'[h] # "writing"]_vars

\* A holder of the write guard has just stored a value into the lock
\* while a RoLock is alive.
C5_Witness ==
    /\ last.op = "store"
    /\ data = last.val
    /\ Ro # {}
    /\ thread[last.h] = "writing"

\* C6: a read() that completes observes exactly the value most recently
\* written (by a store through the write guard, or else by construction),
\* never an earlier one.
C6_NoStaleRead ==
    (last.op = "read" /\ last.res \in RetOk) =>
        /\ last.val = written.val
        /\ last.val # None
        /\ ~writer

\* read() has just returned a value that a writer stored.
C6_Witness ==
    /\ last.op = "read"
    /\ last.res = "Ok"
    /\ written.by = "store"
    /\ last.val = Some(TRUE)

\* C7: try_read never blocks: it can be called whenever the thread is free
\* to call it and never parks; while the lock is write locked it returns
\* WouldBlock and changes nothing, and otherwise it returns a guard on the
\* current value.
C7_TryReadNeverBlocks ==
    [][/\ \A h \in Ro : Idle(h) => ENABLED TryRead(h)
       /\ last'.op = "try_read" =>
            /\ thread'[last'.h] # "parked"
            /\ IF writer
                  THEN /\ last'.res = "WouldBlock"
                       /\ UNCHANGED <<strong, data, poisoned, readers,
                                      writer, hkind, thread>>
                  ELSE /\ last'.res \in RetOk
                       /\ last'.val = data
                       /\ thread'[last'.h] = "reading"]_vars

\* try_read has just returned WouldBlock under a write guard.
C7_Witness ==
    /\ last.op = "try_read"
    /\ last.res = "WouldBlock"
    /\ WriteGuards # {}

\* C8: a read guard of a RoLock never coexists with a write guard, and at
\* most one write guard exists; read guards of different handles coexist.
C8_ReadersXorWriter ==
    /\ ~(ReadGuards # {} /\ WriteGuards # {})
    /\ Cardinality(WriteGuards) <= 1
    /\ WriteGuards \subseteq Rw

\* Two RoLocks hold read guards at the same time.
C8_Witness ==
    /\ Cardinality(ReadGuards \cap Ro) >= 2
    /\ readers >= 2

\* C9: clone() adds exactly one owner, a RoLock on the same allocation,
\* and leaves the value, the lock word and the poison flag alone.
C9_CloneAddsOneOwner ==
    [][last'.op = "clone" =>
        /\ strong' = strong + 1
        /\ last'.out \notin Owners
        /\ Owners' = Owners \cup {last'.out}
        /\ hkind'[last'.out] = "ro"
        /\ hkind'[last'.h] = "ro"
        /\ UNCHANGED <<data, poisoned, readers, writer, thread>>]_vars

\* clone() has just returned a third owner beside the original RoLock.
C9_Witness ==
    /\ last.op = "clone"
    /\ IsRo(last.h)
    /\ IsRo(last.out)
    /\ last.h # last.out
    /\ strong = 3

\* C10: into_inner_unchecked returns the stored value exactly when the
\* handle is the sole owner and the lock is not poisoned, and panics both
\* when another owner is alive and when the sole owner's lock is poisoned.
C10_UncheckedPanics ==
    [][last'.op = "into_inner_unchecked" =>
        IF Owners = {last'.h} /\ ~poisoned
           THEN last'.res = "Ok" /\ last'.val = data /\ data # None
           ELSE last'.res = "Panic" /\ last'.val = None]_vars

\* into_inner_unchecked has just panicked on the sole owner of a poisoned
\* lock.
C10_Witness ==
    /\ last.op = "into_inner_unchecked"
    /\ last.res = "Panic"
    /\ Owners = {}

FreshPair(v) ==
    /\ strong = 0
    /\ Owners = {}
    /\ strong' = 2
    /\ last'.h # last'.out
    /\ {h \in Handles : hkind'[h] # "none"} = {last'.h, last'.out}
    /\ hkind'[last'.h] = "rw"
    /\ hkind'[last'.out] = "ro"
    /\ data' = Some(v)
    /\ readers' = 0
    /\ ~writer'

\* C12: new_pair(v) and from_rw(lock) return a pointer and a RoLock that
\* alias one fresh allocation with owner count 2, holding v (from_rw: the
\* lock's value and poison flag as they were); a read through either
\* returns the stored value; dropping the pointer leaves the count at 1.
C12_PairOfTwoOwners ==
    [][/\ \A v \in Val : NewPair(v) => (FreshPair(v) /\ ~poisoned')
       /\ \A v \in Val, p \in BOOLEAN :
            FromRw(v, p) => (FreshPair(v) /\ poisoned' = p)
       /\ (last'.op \in {"read", "try_read", "rw_read"}
             /\ last'.res \in RetOk) => last'.val = data
       /\ (last'.op = "rw_drop" /\ strong = 2 /\ Cardinality(Ro) = 1) =>
            (strong' = 1 /\ hkind'[last'.h] = "none"
               /\ \A h \in Ro : hkind'[h] = "ro")]_vars

\* new_pair(true) has just returned its two owners.
C12_Witness ==
    /\ last.op = "new_pair"
    /\ strong = 2
    /\ data = Some(TRUE)
    /\ IsRw(last.h)
    /\ IsRo(last.out)

\* C13: RoLock::new(&rw) adds exactly one owner, a RoLock, to rw's
\* allocation and leaves rw, the other owners, the value and the lock
\* state as they were.
C13_NewAddsOneOwner ==
    [][last'.op = "new" =>
        /\ IsRw(last'.h)
        /\ strong' = strong + 1
        /\ last'.out \notin Owners
        /\ hkind' = [hkind EXCEPT ![last'.out] = "ro"]
        /\ UNCHANGED <<data, poisoned, readers, writer, thread>>]_vars

\* RoLock::new has just made the first RoLock on an Arc<RwLock<T>> that
\* Arc::new made.
C13_Witness ==
    /\ last.op = "new"
    /\ strong = 2
    /\ IsRw(last.h)
    /\ Ro = {last.out}

\* C14: once a writer has panicked under the write guard the lock is
\* poisoned and stays so for as long as the allocation lives; is_poisoned()
\* then returns true on every handle, and read() and try_read() that get
\* the lock still hand back a guard on the current value, as Poisoned.
C14_PoisonSticksReadsGoOn ==
    [][/\ (last'.op = "write_release" /\ last'.res = "Panic") => poisoned'
       /\ (poisoned /\ strong' > 0) => poisoned'
       /\ last'.op = "is_poisoned" =>
            (last'.val = Some(poisoned) /\ poisoned' = poisoned)
       /\ (last'.op \in {"read", "try_read"} /\ poisoned /\ ~writer) =>
            /\ last'.res = "Poisoned"
            /\ last'.val = data
            /\ data # None
            /\ thread'[last'.h] = "reading"
       /\ (last'.op \in {"read", "try_read"} /\ ~poisoned) =>
            last'.res # "Poisoned"]_vars

\* read() has just handed back Poisoned(guard) on a value that a writer
\* stored.
C14_Witness ==
    /\ last.op = "read"
    /\ last.res = "Poisoned"
    /\ last.val = data
    /\ written.by = "store"
    /\ poisoned

\* C15: of the into_inner calls racing on the handles of one allocation
\* (each call decides atomically in Arc::try_unwrap) only the call of the
\* last owner gets the value, and it leaves no owner behind that could get
\* it again; a call that finds another owner gets Multiple and leaves the
\* value with the surviving owners; the value goes away unreturned only
\* with Poison.  The value exists exactly as long as an owner does.
C15_ValueReturnedAtMostOnce ==
    [][/\ last'.op = "into_inner" =>
            CASE last'.res = "Ok" ->
                    /\ Owners = {last'.h}
                    /\ last'.val = data /\ data # None
                    /\ Owners' = {} /\ data' = None
              [] last'.res = "Multiple" ->
                    /\ Cardinality(Owners) >= 2
                    /\ Owners' = Owners
                    /\ data' = data /\ data # None
              [] last'.res = "Poison" ->
                    /\ Owners = {last'.h} /\ poisoned
                    /\ Owners' = {} /\ data' = None
              [] OTHER -> FALSE
       /\ (Owners' # {}) <=> (data' # None)
       /\ (data # None /\ data' = None) =>
            \/ last'.op \in {"into_inner", "into_inner_unchecked"}
            \/ last'.op \in {"drop", "rw_drop"}]_vars

\* into_inner has just answered Multiple to one of two RoLocks that are
\* the only owners left: whichever calls next still finds the other.
C15_Witness ==
    /\ last.op = "into_inner"
    /\ last.res = "Multiple"
    /\ Cardinality(Ro) >= 2
    /\ Rw = {}
    /\ data # None

\* C16 as worded: with every writer releasing the lock it holds, a thread
\* parked in read() eventually has its read guard.
C16_ReadAlwaysCompletes ==
    \A h \in Handles : (thread[h] = "parked") ~> (thread[h] = "reading")

\* C16, amended: a thread parked in read() eventually has its read guard
\* provided that from some point on no writer holds the lock; read() parks
\* only under a writer and only its own thread, changing nothing else, and
\* while no writer holds the lock it is granted however many readers hold
\* read guards.
C16_ReadCompletesOnceWritersStop ==
    /\ (<>[](~writer)) =>
          \A h \in Handles : (thread[h] = "parked") ~> (thread[h] = "reading")
    /\ [][/\ \A h \in Ro : Idle(h) => ENABLED Read(h)
          /\ \A h \in Handles :
                (thread[h] = "parked" /\ ~writer) => ENABLED ReadWake(h)
          /\ last'.op = "read" =>
                /\ \A g \in Handles \ {last'.h} : thread'[g] = thread[g]
                /\ UNCHANGED <<strong, data, poisoned, writer, hkind>>
                /\ IF writer
                      THEN /\ last'.res = "Blocked"
                           /\ thread'[last'.h] = "parked"
                           /\ readers' = readers
                      ELSE /\ last'.res \in RetOk
                           /\ thread'[last'.h] = "reading"
                           /\ readers' = readers + 1]_vars

\* A read() is parked while the lock is free of writers and another reader
\* holds a read guard.
C16_Witness ==
    /\ \E h \in Ro : thread[h] = "parked"
    /\ ~writer
    /\ \E g \in Ro : thread[g] = "reading"

\* C17: a reclaim call consumes its handle.  After into_inner returns Ok or
\* Err(Poison) the handle and the allocation are gone; after
\* into_inner_unchecked panics because other owners are alive the handle is
\* dropped, the owner count is one less, and the value, the poison flag and
\* the lock are as before, so that the remaining handles can still read and
\* reclaim.
C17_ReclaimConsumesHandle ==
    [][/\ (last'.op = "into_inner" /\ last'.res \in {"Ok", "Poison"}) =>
             /\ IsRo(last'.h)
             /\ hkind'[last'.h] = "none"
             /\ strong' = 0
             /\ Owners' = {}
             /\ data' = None
       /\ last'.op = "into_inner_unchecked" =>
             /\ IsRo(last'.h)
             /\ hkind' = [hkind EXCEPT ![last'.h] = "none"]
             /\ IF Owners = {last'.h}
                   THEN /\ strong' = 0
                        /\ data' = None
                   ELSE /\ last'.res = "Panic"
                        /\ strong' = strong - 1
                        /\ strong' >= 1
                        /\ Owners' = Owners \ {last'.h}
                        /\ data # None
                        /\ UNCHANGED <<data, poisoned, readers, writer,
                                       thread>>
       /\ \A g \in Ro : Idle(g) =>
             /\ ENABLED Read(g)
             /\ ENABLED IsPoisoned(g)
             /\ ENABLED IntoInner(g)]_vars

\* into_inner_unchecked has panicked on a poisoned lock with another
\* RoLock left.
C17_Witness ==
    /\ last.op = "into_inner_unchecked"
    /\ last.res = "Panic"
    /\ strong >= 1
    /\ poisoned
    /\ Ro # {}

\* C18: is_poisoned() and strong_count() can return in every state, a held
\* write guard included, and change nothing of the lock, the poison flag,
\* the owner count, the owners or the value.
C18_QueriesNeverLock ==
    [][/\ \A h \in Ro : Running(h) =>
             /\ ENABLED IsPoisoned(h)
             /\ ENABLED StrongCount(h)
       /\ last'.op \in {"is_poisoned", "strong_count"} =>
             /\ last'.res = "Ok"
             /\ UNCHANGED <<strong, data, poisoned, readers, writer, hkind,
                            thread>>]_vars

\* is_poisoned() has returned while a writer holds the write guard.
C18_Witness ==
    /\ last.op = "is_poisoned"
    /\ writer
    /\ WriteGuards # {}

\* C19: on a poisoned lock with another owner alive into_inner returns
\* Err(Multiple(handle)), keeps the value, and the handle it returns reads
\* the value as a Poisoned result; Err(Poison) comes only to a sole owner.
C19_OwnershipBeforePoison ==
    [][/\ (last'.op = "into_inner" /\ poisoned /\ Owners # {last'.h}) =>
             /\ last'.res = "Multiple"
             /\ last'.out = last'.h
             /\ hkind'[last'.out] = "ro"
             /\ data # None
             /\ UNCHANGED <<data, poisoned, strong, hkind>>
       /\ (last'.op = "into_inner" /\ last'.res = "Poison") =>
             /\ Owners = {last'.h}
             /\ strong = 1
             /\ poisoned
       /\ (last'.op \in {"read", "read_wake", "try_read"} /\ poisoned
             /\ ~writer) =>
             /\ last'.res = "Poisoned"
             /\ last'.val = data
             /\ data # None]_vars

\* into_inner has returned Err(Multiple) on a poisoned lock.
C19_Witness ==
    /\ last.op = "into_inner"
    /\ last.res = "Multiple"
    /\ poisoned
    /\ IsRo(last.out)
    /\ Idle(last.out)

\* C20: while an owner is alive the value exists and a granted read returns
\* it; the value goes away only with the last owner; and when into_inner or
\* into_inner_unchecked returns the value no read guard and no write guard
\* is held.
C20_ValueLivesWithOwners ==
    /\ [](Owners # {} => data # None)
    /\ [][/\ (data # None /\ data' = None) =>
                /\ Cardinality(Owners) = 1
                /\ strong = 1
                /\ Owners' = {}
          /\ (last'.op \in {"read", "read_wake", "try_read"}
                /\ last'.res \in RetOk) =>
                /\ last'.val = data
                /\ data # None
          /\ (last'.op \in {"into_inner", "into_inner_unchecked"}
                /\ last'.res = "Ok") =>
                /\ last'.val = data
                /\ readers = 0
                /\ ~writer
                /\ ReadGuards = {}
                /\ WriteGuards = {}]_vars

\* into_inner_unchecked has returned a value that a writer stored.
C20_Witness ==
    /\ last.op = "into_inner_unchecked"
    /\ last.res = "Ok"
    /\ last.val = Some(TRUE)
    /\ Owners = {}

====
